---- MODULE Spec2Model ----
(***************************************************************************)
(* Model of OpenDiablo2/cof: the COF (composite object) codec of           *)
(* cof_layer.go and the AnimData.d2 loader of animdata.go.                 *)
(*                                                                         *)
(* A byte is a number in 0..255, a byte slice or a Go string a sequence of *)
(* bytes.  The bitstream reader is a pair (buffer, position).              *)
(***************************************************************************)
EXTENDS Integers, Sequences, FiniteSets, TLC

VARIABLES pc,        \* the buffer the caller holds, then the call that returned last
          fileData,  \* the buffer handed to Unmarshal
          cof,       \* the *COF the caller holds
          cofErr,    \* the error Unmarshal returned
          out,       \* what Marshal returned
          param,     \* how the AnimData buffer was put together
          data,      \* the buffer handed to Load
          animdata,  \* the *AnimationData Load returned
          err,       \* the error Load returned
          pos,       \* reader.Position() when Load returned
          lookup     \* the last GetRecord / GetRecords / GetRecordNames call

vars == <<pc, fileData, cof, cofErr, out, param, data, animdata, err, pos, lookup>>

cofVars  == <<fileData, cof, cofErr, out>>
animVars == <<param, data, animdata, err, pos, lookup>>

----------------------------------------------------------------------------
(* Bounds of the explored inputs *)

MaxLayers == 2   \* NumberOfLayers in the generated COF headers
MaxFrames == 2   \* FramesPerDirection in the generated COF headers
MaxDirs   == 2   \* NumberOfDirections in the generated COF headers
MaxExtra  == 1   \* bytes appended behind a complete buffer
MaxRecs   == 2   \* records in each populated AnimData block

----------------------------------------------------------------------------
(* Program constants *)

numUnknownHeaderBytes == 21
numUnknownBodyBytes   == 3
numHeaderBytes        == 4 + numUnknownHeaderBytes
numLayerBytes         == 9

headerNumLayers    == 0
headerFramesPerDir == 1
headerNumDirs      == 2
headerSpeed        == numHeaderBytes - 1

layerType        == 0
layerShadow      == 1
layerSelectable  == 2
layerTransparent == 3
layerDrawEffect  == 4
layerWeaponClass == 5

badCharacter  == 0
maxCodeLength == 3
terminator    == 0

EventNone == 0

NoErr   == "nil"
ErrEOF  == "out of data"
Nil   == [absent |-> TRUE]
Panic   == <<-1>>

byte(x) == x % 256

----------------------------------------------------------------------------
(* Sequence helpers *)

\* f[from] + ... + f[to] (the range is halved to keep the evaluation shallow)
RECURSIVE SumRange(_, _, _)
SumRange(f, from, to) ==
    IF from > to THEN 0
    ELSE IF from = to THEN f[from]
    ELSE LET mid == (from + to) \div 2
         IN  SumRange(f, from, mid) + SumRange(f, mid + 1, to)

SumTo(f, n) == SumRange(f, 1, n)

Zeros(n) == [i \in 1..n |-> 0]

\* ss[from] \o ... \o ss[to]
RECURSIVE FlattenRange(_, _, _)
FlattenRange(ss, from, to) ==
    IF from > to THEN <<>>
    ELSE IF from = to THEN ss[from]
    ELSE LET mid == (from + to) \div 2
         IN  FlattenRange(ss, from, mid) \o FlattenRange(ss, mid + 1, to)

Flatten(ss) == FlattenRange(ss, 1, Len(ss))

Range(s) == {s[i] : i \in DOMAIN s}

----------------------------------------------------------------------------
(* bitstream.Reader: Next(n).Bytes().AsBytes() and friends *)

\* Next(n) succeeds when n more bytes are there
CanRead(buf, p, n) == p + n <= Len(buf)

\* the n bytes behind position p
ReadBytes(buf, p, n) == SubSeq(buf, p + 1, p + n)

\* the slice a failed AsBytes() hands back: nil, or the bytes that were left
ShortReadKinds == {"nil", "rest"}
ShortRead(buf, p, kind) ==
    IF kind = "rest" /\ p <= Len(buf) THEN SubSeq(buf, p + 1, Len(buf)) ELSE <<>>

\* a uint32 is kept as its two 16-bit halves
AsUInt32(b) == [lo |-> b[1] + 256 * b[2], hi |-> b[3] + 256 * b[4]]
AsUInt16(b) == b[1] + 256 * b[2]

----------------------------------------------------------------------------
(* strings.ReplaceAll(s, "\x00", "") and strings.TrimSpace: a string is  *)
(* its bytes, read as UTF-8 where the library reads runes                  *)

RuneSelf  == 128
RuneError == 65533
UTFMax    == 4

ReplaceAllBad(s) == SelectSeq(s, LAMBDA ch : ch # badCharacter)

\* unicode.IsSpace of a rune
IsSpace(r) ==
    \/ r \in {9, 10, 11, 12, 13, 32, 133, 160}
    \/ r \in {5760, 8232, 8233, 8239, 8287, 12288}
    \/ r \in 8192..8202

\* a continuation byte 10xxxxxx
IsCont(b) == b \in 128..191

\* utf8.RuneStart
RuneStart(b) == ~IsCont(b)

\* utf8.DecodeRuneInString: the first rune of s and its width; an encoding that
\* is not valid is RuneError of width 1, the empty string RuneError of width 0
DecodeRune(s) ==
    LET n  == Len(s)
        b0 == s[1]
        bad == [r |-> RuneError, size |-> 1]
    IN
    IF n = 0 THEN [r |-> RuneError, size |-> 0]
    ELSE IF b0 < RuneSelf THEN [r |-> b0, size |-> 1]
    ELSE IF b0 \in 194..223 THEN
        IF n >= 2 /\ IsCont(s[2])
        THEN [r |-> (b0 - 192) * 64 + (s[2] - 128), size |-> 2] ELSE bad
    ELSE IF b0 \in 224..239 THEN
        LET lo == IF b0 = 224 THEN 160 ELSE 128
            hi == IF b0 = 237 THEN 159 ELSE 191
        IN  IF n >= 3 /\ s[2] \in lo..hi /\ IsCont(s[3])
            THEN [r |-> (b0 - 224) * 4096 + (s[2] - 128) * 64 + (s[3] - 128), size |-> 3]
            ELSE bad
    ELSE IF b0 \in 240..244 THEN
        LET lo == IF b0 = 240 THEN 144 ELSE 128
            hi == IF b0 = 244 THEN 143 ELSE 191
        IN  IF n >= 4 /\ s[2] \in lo..hi /\ IsCont(s[3]) /\ IsCont(s[4])
            THEN [r |-> (b0 - 240) * 262144 + (s[2] - 128) * 4096
                        + (s[3] - 128) * 64 + (s[4] - 128), size |-> 4]
            ELSE bad
    ELSE bad

\* the index (from 0) the backward search of DecodeLastRuneInString stops at
RECURSIVE lastRuneStart(_, _, _)
lastRuneStart(s, start, lim) ==
    IF start < lim THEN start
    ELSE IF RuneStart(s[start + 1]) THEN start
    ELSE lastRuneStart(s, start - 1, lim)

\* the lower limit 0 of an index: if x < 0 { x = 0 }
Max0(x) == IF x < 0 THEN 0 ELSE x

\* the end of utf8.DecodeLastRuneInString: d, the rune decoded at start, if it
\* ends where s ends
lastRuneAt(s, start, d) ==
    IF start + d.size # Len(s) THEN [r |-> RuneError, size |-> 1] ELSE d

\* utf8.DecodeLastRuneInString once the backward search stopped at start
lastRuneFrom(s, start) ==
    lastRuneAt(s, start, DecodeRune(SubSeq(s, start + 1, Len(s))))

\* utf8.DecodeLastRuneInString: the last rune of s and its width
DecodeLastRune(s) ==
    IF Len(s) = 0 THEN [r |-> RuneError, size |-> 0]
    ELSE IF s[Len(s)] < RuneSelf THEN [r |-> s[Len(s)], size |-> 1]
    ELSE lastRuneFrom(s, Max0(lastRuneStart(s, Len(s) - 2, Max0(Len(s) - UTFMax))))

\* indexFunc(s, unicode.IsSpace, false) from byte i on: the index (from 0) of the
\* first rune that is no space, or -1; indexStep is one turn of its loop, d being
\* the rune at i
RECURSIVE indexNotSpace(_, _)
indexStep(s, i, d) ==
    IF ~IsSpace(d.r) THEN i ELSE indexNotSpace(s, i + d.size)

indexNotSpace(s, i) ==
    IF i >= Len(s) THEN -1
    ELSE indexStep(s, i, DecodeRune(SubSeq(s, i + 1, Len(s))))

\* lastIndexFunc(s, unicode.IsSpace, false) over s[0:i]: the index (from 0) of
\* the last rune that is no space, or -1; lastIndexStep is one turn of its loop,
\* d being the last rune of s[0:i]
RECURSIVE lastIndexNotSpace(_, _)
lastIndexStep(s, i, d) ==
    IF ~IsSpace(d.r) THEN i - d.size ELSE lastIndexNotSpace(s, i - d.size)

lastIndexNotSpace(s, i) ==
    IF i <= 0 THEN -1
    ELSE lastIndexStep(s, i, DecodeLastRune(SubSeq(s, 1, i)))

\* s[i:] of strings.TrimLeftFunc, i being what indexFunc found
trimFrom(s, i) == IF i = -1 THEN <<>> ELSE SubSeq(s, i + 1, Len(s))

\* strings.TrimLeftFunc(s, unicode.IsSpace)
TrimLeft(s) == trimFrom(s, indexNotSpace(s, 0))

\* s[0:i] of strings.TrimRightFunc, i being what lastIndexFunc found: the index
\* moves past the rune found, by its width
trimTo(s, i) ==
    SubSeq(s, 1, IF i >= 0 /\ s[i + 1] >= RuneSelf
                 THEN i + DecodeRune(SubSeq(s, i + 1, Len(s))).size
                 ELSE i + 1)

\* strings.TrimRightFunc(s, unicode.IsSpace)
TrimRight(s) == trimTo(s, lastIndexNotSpace(s, Len(s)))

\* strings.TrimSpace: its ASCII fast path gives what the two trims give
TrimSpace(s) == TrimRight(TrimLeft(s))

----------------------------------------------------------------------------
(* The WeaponClass enumeration: a code is an index into the table of its   *)
(* strings, 0 being the class without a weapon, whose string is empty.     *)

WeaponClassStrings ==
    << <<104, 116, 104>>,   \* hth
       <<98, 111, 119>>,    \* bow
       <<49, 104, 115>>,    \* 1hs
       <<49, 104, 116>>,    \* 1ht
       <<115, 116, 102>>,   \* stf
       <<50, 104, 115>>,    \* 2hs
       <<50, 104, 116>>,    \* 2ht
       <<120, 98, 119>>,    \* xbw
       <<49, 106, 115>>,    \* 1js
       <<49, 106, 116>>,    \* 1jt
       <<49, 115, 115>>,    \* 1ss
       <<49, 115, 116>>,    \* 1st
       <<104, 116, 49>>,    \* ht1
       <<104, 116, 50>>     \* ht2
    >>

WeaponClassNone == 0

WeaponClassFromString(s) ==
    IF \E i \in 1..Len(WeaponClassStrings) : WeaponClassStrings[i] = s
    THEN CHOOSE i \in 1..Len(WeaponClassStrings) : WeaponClassStrings[i] = s
    ELSE WeaponClassNone

WeaponClassString(w) ==
    IF w \in 1..Len(WeaponClassStrings) THEN WeaponClassStrings[w] ELSE <<>>

----------------------------------------------------------------------------
(* COF *)

\* a slice of the priority matrix: made (by make) or still nil
MadeSlice(elems) == [made |-> TRUE, elems |-> elems]
NilSlice        == [made |-> FALSE, elems |-> <<>>]

\* the zero CofLayer
ZeroLayer ==
    [Type |-> 0, Shadow |-> 0, Selectable |-> FALSE, Transparent |-> FALSE,
     DrawEffect |-> 0, WeaponClass |-> WeaponClassNone]

\* the empty map[CompositeType]int
EmptyMap == [t \in {} |-> 0]

New ==
    [unknownHeaderBytes |-> [i \in 1..numUnknownHeaderBytes |-> 0],
     unknownBodyBytes   |-> [i \in 1..numUnknownBodyBytes |-> 0],
     NumberOfDirections |-> 0,
     FramesPerDirection |-> 0,
     NumberOfLayers     |-> 0,
     Speed              |-> 0,
     CofLayers          |-> <<>>,
     CompositeLayers    |-> EmptyMap,
     AnimationFrames    |-> <<>>,
     Priority           |-> MadeSlice(<<>>)]

loadHeader(c, b) ==
    [c EXCEPT !.NumberOfLayers     = b[headerNumLayers + 1],
              !.FramesPerDirection = b[headerFramesPerDir + 1],
              !.NumberOfDirections = b[headerNumDirs + 1],
              !.unknownHeaderBytes = SubSeq(b, headerNumDirs + 2, headerSpeed),
              !.Speed              = b[headerSpeed + 1]]

\* one layer descriptor of numLayerBytes bytes
decodeLayer(b) ==
    [Type        |-> b[layerType + 1],
     Shadow      |-> b[layerShadow + 1],
     Selectable  |-> b[layerSelectable + 1] > 0,
     Transparent |-> b[layerTransparent + 1] > 0,
     DrawEffect  |-> b[layerDrawEffect + 1],
     WeaponClass |-> WeaponClassFromString(
                        TrimSpace(ReplaceAllBad(SubSeq(b, layerWeaponClass + 1, Len(b)))))]

\* a map that keeps the first index of a type
MapPutFirst(m, t, i) == [k \in DOMAIN m \cup {t} |-> IF k \in DOMAIN m THEN m[k] ELSE i]

\* CompositeLayers[layer.Type] = i
MapPut(m, t, i) == [k \in DOMAIN m \cup {t} |-> IF k = t THEN i ELSE m[k]]

\* the loop of loadCOFLayers from layer i on; p is the reader's position
RECURSIVE loadCOFLayers(_, _, _, _)
loadCOFLayers(c, buf, p, i) ==
    IF i >= c.NumberOfLayers THEN [c |-> c, pos |-> p, err |-> NoErr]
    ELSE IF ~CanRead(buf, p, numLayerBytes) THEN [c |-> c, pos |-> p, err |-> ErrEOF]
    ELSE LET layer == decodeLayer(ReadBytes(buf, p, numLayerBytes))
             c1 == [c EXCEPT !.CofLayers[i + 1] = layer,
                             !.CompositeLayers = MapPut(@, layer.Type, i)]
         IN  loadCOFLayers(c1, buf, p + numLayerBytes, i + 1)

loadAnimationFrames(c, b) ==
    [c EXCEPT !.AnimationFrames =
        [i \in 1..c.FramesPerDirection |-> IF i <= Len(b) THEN b[i] ELSE 0]]

\* a loadPriority that returns at once when there are no priority bytes
loadPriorityEarlyReturn(c, priorityBytes) ==
    IF Len(priorityBytes) = 0 THEN c
    ELSE [c EXCEPT !.Priority = MadeSlice(
        [direction \in 1..c.NumberOfDirections |-> MadeSlice(
            [frame \in 1..c.FramesPerDirection |-> MadeSlice(
                [i \in 1..c.NumberOfLayers |->
                    priorityBytes[((direction - 1) * c.FramesPerDirection + (frame - 1))
                                    * c.NumberOfLayers + i]])])])]

loadPriority(c, priorityBytes) ==
    [c EXCEPT !.Priority = MadeSlice(
        [direction \in 1..c.NumberOfDirections |-> MadeSlice(
            [frame \in 1..c.FramesPerDirection |-> MadeSlice(
                [i \in 1..c.NumberOfLayers |->
                    priorityBytes[((direction - 1) * c.FramesPerDirection + (frame - 1))
                                    * c.NumberOfLayers + i]])])])]

\* (c *COF) Unmarshal: the receiver as it is left, and the error
UnmarshalInto(c0, buf, kind) ==
    IF ~CanRead(buf, 0, numHeaderBytes) THEN [c |-> c0, err |-> ErrEOF]
    ELSE
    LET c1 == loadHeader(c0, ReadBytes(buf, 0, numHeaderBytes))
        p1 == numHeaderBytes
    IN
    IF ~CanRead(buf, p1, numUnknownBodyBytes)
    THEN [c |-> [c1 EXCEPT !.unknownBodyBytes = ShortRead(buf, p1, kind)], err |-> ErrEOF]
    ELSE
    LET c2 == [c1 EXCEPT !.unknownBodyBytes = ReadBytes(buf, p1, numUnknownBodyBytes),
                         !.CofLayers = [i \in 1..c1.NumberOfLayers |-> ZeroLayer],
                         !.CompositeLayers = EmptyMap]
        p2 == p1 + numUnknownBodyBytes
        r3 == loadCOFLayers(c2, buf, p2, 0)
    IN
    IF r3.err # NoErr THEN [c |-> r3.c, err |-> r3.err]
    ELSE IF ~CanRead(buf, r3.pos, r3.c.FramesPerDirection) THEN [c |-> r3.c, err |-> ErrEOF]
    ELSE
    LET c4 == loadAnimationFrames(r3.c, ReadBytes(buf, r3.pos, r3.c.FramesPerDirection))
        p4 == r3.pos + c4.FramesPerDirection
        priorityLen == c4.FramesPerDirection * c4.NumberOfDirections * c4.NumberOfLayers
        c5 == [c4 EXCEPT !.Priority =
                  MadeSlice([d \in 1..c4.NumberOfDirections |-> NilSlice])]
    IN
    IF ~CanRead(buf, p4, priorityLen) THEN [c |-> c5, err |-> ErrEOF]
    ELSE [c |-> loadPriority(c5, ReadBytes(buf, p4, priorityLen)), err |-> NoErr]

\* the package's Unmarshal: a new COF, decoded into, and the error
Unmarshal(buf, kind) == UnmarshalInto(New, buf, kind)

\* the bytes Marshal writes for the weapon class of a layer
marshalWeaponCode(weaponCode) ==
    SelectSeq([idx \in 1..Len(weaponCode) |->
                  IF idx - 1 > maxCodeLength THEN -1 ELSE byte(weaponCode[idx])],
              LAMBDA b : b >= 0)
    \o <<terminator>>

\* the bytes Marshal writes for one layer
marshalLayer(layer) ==
    << byte(layer.Type), layer.Shadow,
       IF layer.Selectable THEN 1 ELSE 0,
       IF layer.Transparent THEN 1 ELSE 0,
       byte(layer.DrawEffect) >>
    \o marshalWeaponCode(WeaponClassString(layer.WeaponClass))

\* whether Priority[direction][frame][i] exists (all indexes from 1)
HasPriority(c, direction, frame, i) ==
    /\ direction <= Len(c.Priority.elems)
    /\ frame <= Len(c.Priority.elems[direction].elems)
    /\ i <= Len(c.Priority.elems[direction].elems[frame].elems)

\* (c *COF) Marshal: the bytes, or Panic when an index is out of range
Marshal(c) ==
    LET n == c.NumberOfDirections * c.FramesPerDirection * c.NumberOfLayers
        Dir(k)   == ((k - 1) \div (c.FramesPerDirection * c.NumberOfLayers)) + 1
        Frame(k) == (((k - 1) \div c.NumberOfLayers) % c.FramesPerDirection) + 1
        Slot(k)  == ((k - 1) % c.NumberOfLayers) + 1
    IN
    IF \E k \in 1..n : ~HasPriority(c, Dir(k), Frame(k), Slot(k)) THEN Panic
    ELSE
        << byte(c.NumberOfLayers), byte(c.FramesPerDirection), byte(c.NumberOfDirections) >>
        \o c.unknownHeaderBytes
        \o << byte(c.Speed) >>
        \o c.unknownBodyBytes
        \o Flatten([i \in 1..Len(c.CofLayers) |-> marshalLayer(c.CofLayers[i])])
        \o [i \in 1..Len(c.AnimationFrames) |-> byte(c.AnimationFrames[i])]
        \o [k \in 1..n |->
              byte(c.Priority.elems[Dir(k)].elems[Frame(k)].elems[Slot(k)])]

----------------------------------------------------------------------------
(* The COF buffers explored *)

\* layer descriptors: type, shadow, selectable, transparent, draw effect and the
\* 4 bytes of the weapon class
LayerChoices ==
    { <<0, 1, 1, 0, 0, 104, 116, 104, 0>>,   \* "hth\0"
      <<1, 0, 0, 1, 3, 98, 111, 119, 0>>,    \* "bow\0"
      <<0, 0, 2, 0, 0, 49, 104, 115, 0>>,    \* "1hs\0", selectable byte 2
      <<2, 7, 0, 0, 1, 0, 0, 0, 0>>,         \* no weapon class: four zero bytes
      <<1, 0, 1, 1, 0, 0, 98, 111, 119>>,    \* "\0bow"
      <<3, 0, 0, 0, 0, 115, 116, 102, 32>>   \* "stf "
    }

\* the layers of the buffers that are cut short
CutLayers == [i \in 1..(MaxLayers + 1) |->
                 IF i % 2 = 1 THEN <<0, 1, 1, 0, 0, 104, 116, 104, 0>>
                 ELSE <<1, 0, 0, 1, 3, 98, 111, 119, 0>>]

UnknownHeader == [i \in 1..numUnknownHeaderBytes |-> 100 + i]
UnknownBody   == [i \in 1..numUnknownBodyBytes |-> 200 + i]
SpeedByte     == byte(250)
ExtraByte     == byte(255)

\* a complete COF file
CofFile(layers, nFrames, nDirs) ==
    << Len(layers), nFrames, nDirs >> \o UnknownHeader \o << SpeedByte >> \o UnknownBody
    \o Flatten(layers)
    \o [i \in 1..nFrames |-> i % 5]
    \o [k \in 1..(nDirs * nFrames * Len(layers)) |-> (k * 7) % 16]

CompleteCofFiles ==
    { CofFile(layers, nFrames, nDirs) \o [i \in 1..extra |-> ExtraByte] :
        layers \in UNION { [1..n -> LayerChoices] : n \in 0..MaxLayers },
        nFrames \in 0..MaxFrames, nDirs \in 0..MaxDirs, extra \in 0..MaxExtra }

CutCofFiles ==
    LET full == CofFile(SubSeq(CutLayers, 1, MaxLayers), MaxFrames, MaxDirs)
    IN  { SubSeq(full, 1, n) : n \in 0..(Len(full) - 1) }

InitCOF ==
    /\ pc = "cof"
    /\ fileData \in CompleteCofFiles \cup CutCofFiles
    /\ cof = Nil
    /\ cofErr = NoErr
    /\ out = <<>>
    /\ param = <<>> /\ data = <<>> /\ animdata = Nil /\ err = NoErr
    /\ pos = 0 /\ lookup = <<>>

\* c := New()
CallNew ==
    /\ pc = "cof"
    /\ cof' = New
    /\ pc' = "new"
    /\ UNCHANGED <<fileData, cofErr, out>>
    /\ UNCHANGED animVars

\* c, err := Unmarshal(fileData)
CallUnmarshal ==
    /\ pc = "cof"
    /\ \E kind \in ShortReadKinds :
         LET r == Unmarshal(fileData, kind)
         IN  cof' = r.c /\ cofErr' = r.err
    /\ pc' = "unmarshalled"
    /\ UNCHANGED <<fileData, out>>
    /\ UNCHANGED animVars

\* out := Marshal(c)
CallMarshal ==
    /\ pc \in {"new", "unmarshalled"}
    /\ out' = Marshal(cof)
    /\ pc' = IF pc = "new" THEN "marshalledNew" ELSE "marshalled"
    /\ UNCHANGED <<fileData, cof, cofErr>>
    /\ UNCHANGED animVars

NextCOF == CallNew \/ CallUnmarshal \/ CallMarshal

SpecCOF == InitCOF /\ [][NextCOF]_vars

----------------------------------------------------------------------------
(* AnimationData *)

numBlocks             == 256
maxRecordsPerBlock    == 67
byteCountName         == 8
byteCountSpeedPadding == 2
numEvents             == 144

ErrTooMany     == "more than 67 records in block"
ErrTerminator  == "animdata AnimationDataRecord name missing null terminator byte"
ErrUnableParse == "unable to parse animation data"

\* strings.ToUpper on the bytes of an ASCII name
ToUpper(ch) == IF ch >= 97 /\ ch <= 122 THEN ch - 32 ELSE ch

\* the hash of a record name: the sum of its upper-cased bytes, modulo the
\* number of blocks
hashName(name) == SumTo([i \in 1..Len(name) |-> ToUpper(name[i])], Len(name)) % numBlocks

\* hashTable[i], an array of bytes: zero where nothing was written
HashAt(hashTable, i) == IF i \in DOMAIN hashTable THEN hashTable[i] ELSE 0

\* the state Load carries from record to record
LoadStart ==
    [pos       |-> 0,
     hashIdx   |-> 0,
     hashTable |-> [i \in {} |-> 0],
     blocks    |-> [i \in 1..numBlocks |-> Nil],
     entries   |-> [n \in {} |-> <<>>],
     err       |-> NoErr]

\* a Load that keeps only the newest record of a name
appendEntryOverwrite(entries, r) ==
    [n \in DOMAIN entries \cup {r.name} |-> IF n = r.name THEN <<r>> ELSE entries[n]]

\* animdata.entries[r.name] = append(animdata.entries[r.name], r)
appendEntry(entries, r) ==
    [n \in DOMAIN entries \cup {r.name} |->
        IF n = r.name
        THEN (IF n \in DOMAIN entries THEN entries[n] ELSE <<>>) \o <<r>>
        ELSE entries[n]]

\* the 144 event bytes behind position p: the slots that are not EventNone
loadEvents(buf, p) ==
    [eventIdx \in {e \in 0..(numEvents - 1) : buf[p + e + 1] # EventNone} |->
        buf[p + eventIdx + 1]]

\* a limit that is one too high
tooManyRecordsOffByOne(recordCount) ==
    recordCount.hi > 0 \/ recordCount.lo > maxRecordsPerBlock + 1

\* recordCount > maxRecordsPerBlock
tooManyRecords(recordCount) == recordCount.hi > 0 \/ recordCount.lo > maxRecordsPerBlock

\* animdata.hashTable[hashIdx] = hashName(name); hashIdx is not changed
putHash(st, name) ==
    [st EXCEPT !.hashTable = [i \in DOMAIN @ \cup {st.hashIdx} |->
                                 IF i = st.hashIdx THEN hashName(name) ELSE @[i]]]

\* one pass of the record loop: the record at the reader's position
loadRecord(buf, st) ==
    IF ~CanRead(buf, st.pos, byteCountName) THEN [st |-> [st EXCEPT !.err = ErrEOF], r |-> Nil]
    ELSE
    LET nameBytes == ReadBytes(buf, st.pos, byteCountName)
        p1 == st.pos + byteCountName
    IN
    IF nameBytes[byteCountName] # 0
    THEN [st |-> [st EXCEPT !.err = ErrTerminator, !.pos = p1], r |-> Nil]
    ELSE
    LET name == ReplaceAllBad(nameBytes)
        st1 == putHash(st, name)
    IN
    IF ~CanRead(buf, p1, 4) THEN [st |-> [st1 EXCEPT !.err = ErrEOF, !.pos = p1], r |-> Nil]
    ELSE
    LET frames == AsUInt32(ReadBytes(buf, p1, 4))
        p2 == p1 + 4
    IN
    IF ~CanRead(buf, p2, 2) THEN [st |-> [st1 EXCEPT !.err = ErrEOF, !.pos = p2], r |-> Nil]
    ELSE
    LET speed == AsUInt16(ReadBytes(buf, p2, 2))
        p3 == p2 + 2
    IN
    IF ~CanRead(buf, p3, byteCountSpeedPadding)
    THEN [st |-> [st1 EXCEPT !.err = ErrEOF, !.pos = p3], r |-> Nil]
    ELSE
    LET p4 == p3 + byteCountSpeedPadding IN
    IF ~CanRead(buf, p4, numEvents)
    THEN [st |-> [st1 EXCEPT !.err = ErrEOF, !.pos = Len(buf)], r |-> Nil]
    ELSE
    LET r == [name |-> name, frames |-> frames, speed |-> speed,
              events |-> loadEvents(buf, p4)]
    IN  [st |-> [st1 EXCEPT !.pos = p4 + numEvents,
                            !.entries = appendEntry(@, r)],
         r |-> r]

\* the record loop of one block, from recordIdx on
RECURSIVE loadRecords(_, _, _, _, _)
loadRecords(buf, st, recordIdx, recordCount, records) ==
    IF recordIdx >= recordCount THEN [st |-> st, records |-> records]
    ELSE LET one == loadRecord(buf, st)
         IN  IF one.st.err # NoErr THEN [st |-> one.st, records |-> records]
             ELSE loadRecords(buf, one.st, recordIdx + 1, recordCount,
                              [records EXCEPT ![recordIdx + 1] = one.r])

\* one pass of the block loop: block blockIdx at the reader's position
loadBlock(buf, st, blockIdx) ==
    IF ~CanRead(buf, st.pos, 4) THEN [st EXCEPT !.err = ErrEOF]
    ELSE
    LET recordCount == AsUInt32(ReadBytes(buf, st.pos, 4))
        st1 == [st EXCEPT !.pos = st.pos + 4]
    IN
    IF tooManyRecords(recordCount) THEN [st1 EXCEPT !.err = ErrTooMany]
    ELSE
    LET got == loadRecords(buf, st1, 0, recordCount.lo, [i \in 1..recordCount.lo |-> Nil])
    IN
    IF got.st.err # NoErr THEN got.st
    ELSE [got.st EXCEPT !.blocks[blockIdx + 1] =
             [recordCount |-> recordCount.lo, records |-> got.records]]

\* the block loop over the blocks from..to-1, in order, stopping at the first
\* error (the range is halved only to keep the evaluation shallow)
RECURSIVE loadBlocks(_, _, _, _)
loadBlocks(buf, st, from, to) ==
    IF st.err # NoErr \/ from >= to THEN st
    ELSE IF to = from + 1 THEN loadBlock(buf, st, from)
    ELSE LET mid == (from + to) \div 2
         IN  loadBlocks(buf, loadBlocks(buf, st, from, mid), mid, to)

\* a check that only sees a reader beyond the end
notAllReadBeyond(buf, p) == p > Len(buf)

\* reader.Position() != len(data)
notAllRead(buf, p) == p # Len(buf)

\* Load: the store (or nil), the error, and where the reader stood
Load(buf) ==
    LET st == loadBlocks(buf, LoadStart, 0, numBlocks) IN
    IF st.err # NoErr THEN [animdata |-> Nil, err |-> st.err, pos |-> st.pos]
    ELSE IF notAllRead(buf, st.pos)
    THEN [animdata |-> Nil, err |-> ErrUnableParse, pos |-> st.pos]
    ELSE [animdata |-> [hashTable |-> st.hashTable, blocks |-> st.blocks,
                        entries |-> st.entries],
          err |-> NoErr, pos |-> st.pos]

GetRecords(ad, name) == IF name \in DOMAIN ad.entries THEN ad.entries[name] ELSE <<>>

\* a GetRecord that hands out the first record of a name
GetRecordFirst(ad, name) ==
    LET records == GetRecords(ad, name)
    IN  IF Len(records) < 1 THEN Nil ELSE records[1]

GetRecord(ad, name) ==
    LET records == GetRecords(ad, name)
        numRecords == Len(records)
    IN  IF numRecords < 1 THEN Nil ELSE records[numRecords]

----------------------------------------------------------------------------
(* The AnimData buffers explored: all blocks are empty but the first and   *)
(* the last one.                                                           *)

\* the 8 bytes of a name field
NameFields ==
    << <<72, 68, 0, 0, 0, 0, 0, 0>>,          \* "HD"
       <<65, 0, 66, 0, 0, 0, 0, 0>>,          \* "A", a zero byte, "B"
       <<104, 100, 65, 66, 67, 68, 69, 0>>,   \* "hdABCDE"
       <<72, 68, 0, 0, 0, 0, 0, 1>> >>        \* no terminator

\* the names the fields above stand for
NameStrings ==
    << <<72, 68>>, <<65, 66>>, <<104, 100, 65, 66, 67, 68, 69>>, <<72, 68, 1>> >>

UnseenName == <<90, 90>>
GoodNames  == {1, 2, 3}
BadName    == Len(NameFields)

QueryNames == {NameStrings[i] : i \in GoodNames} \cup {UnseenName}

LE32(n) == << n % 256, (n \div 256) % 256, (n \div 65536) % 256, (n \div 16777216) % 256 >>
U32(n)  == [lo |-> n % 65536, hi |-> n \div 65536]
LE16(n) == << n % 256, (n \div 256) % 256 >>

\* what the g-th record of a buffer holds besides its name
FramesOf(g) == 1000 + g
SpeedOf(g)  == 300 + g
EventsOf(g) == [e \in {g - 1, numEvents - 1} |-> IF e = g - 1 THEN 1 + (g % 4) ELSE 4]

RecordBytes(nameId, g) ==
    NameFields[nameId] \o LE32(FramesOf(g)) \o LE16(SpeedOf(g)) \o <<170, 187>>
    \o [i \in 1..numEvents |-> IF (i - 1) \in DOMAIN EventsOf(g) THEN EventsOf(g)[i - 1] ELSE 0]

\* a block: the declared count and the records that follow it
BlockBytes(count, names, g0) ==
    count \o Flatten([i \in 1..Len(names) |-> RecordBytes(names[i], g0 + i)])

AnimFile(q) ==
    LET full == BlockBytes(q.count1, q.recs1, 0)
                \o Zeros(4 * (numBlocks - 2))
                \o BlockBytes(q.count2, q.recs2, Len(q.recs1))
                \o [i \in 1..q.extra |-> ExtraByte]
    IN  SubSeq(full, 1, Len(full) - q.drop)

NameSeqs(S, n) == UNION { [1..k -> S] : k \in 0..n }

\* buffers whose counts are the numbers of records that follow, with or
\* without bytes behind the last block
OkParams ==
    { [recs1 |-> r1, recs2 |-> r2, count1 |-> LE32(Len(r1)), count2 |-> LE32(Len(r2)),
       extra |-> 0, drop |-> 0] :
        r1 \in NameSeqs(GoodNames, MaxRecs), r2 \in NameSeqs({1, 2}, MaxRecs) } \cup
    { [recs1 |-> r1, recs2 |-> r2, count1 |-> LE32(Len(r1)), count2 |-> LE32(Len(r2)),
       extra |-> x, drop |-> 0] :
        r1 \in NameSeqs({1}, 1), r2 \in NameSeqs({2}, 1), x \in 1..MaxExtra }

\* a name field without its terminator
TermParams ==
    { [recs1 |-> r1, recs2 |-> r2, count1 |-> LE32(Len(r1)), count2 |-> LE32(Len(r2)),
       extra |-> 0, drop |-> 0] :
        r1 \in {<<1>>, <<BadName>>, <<2, BadName>>}, r2 \in {<<>>, <<BadName>>, <<BadName, 3>>} }

\* counts that are not the numbers of records that follow
DeclaredCounts ==
    { LE32(0), LE32(1), LE32(2), LE32(67), LE32(68), LE32(255), LE32(256), LE32(65536),
      <<0, 0, 0, 128>>, <<255, 255, 255, 255>> }
CountParams ==
    { [recs1 |-> <<1>>, recs2 |-> <<2>>, count1 |-> c1, count2 |-> c2,
       extra |-> 0, drop |-> 0] :
        c1 \in DeclaredCounts, c2 \in {LE32(1)} } \cup
    { [recs1 |-> <<1>>, recs2 |-> <<2>>, count1 |-> c1, count2 |-> c2,
       extra |-> 0, drop |-> 0] :
        c1 \in {LE32(1)}, c2 \in DeclaredCounts }

\* buffers that end early
Drops == {1, 2, 143, 144, 145, 146, 147, 148, 149, 151, 152, 153, 159, 160,
          161, 163, 164, 165, 168, 1000, 1180, 1184, 1187, 1188}
CutParams ==
    { [recs1 |-> <<1>>, recs2 |-> <<2>>, count1 |-> LE32(1), count2 |-> LE32(1),
       extra |-> 0, drop |-> d] : d \in Drops }

InitAnim ==
    /\ pc = "animdata"
    /\ param \in OkParams \cup TermParams \cup CountParams \cup CutParams
    /\ data = AnimFile(param)
    /\ animdata = Nil
    /\ err = NoErr
    /\ pos = 0
    /\ lookup = <<>>
    /\ fileData = <<>> /\ cof = Nil /\ cofErr = NoErr /\ out = <<>>

\* animdata, err := Load(data)
CallLoad ==
    /\ pc = "animdata"
    /\ LET r == Load(data)
       IN  animdata' = r.animdata /\ err' = r.err /\ pos' = r.pos
    /\ pc' = "loaded"
    /\ UNCHANGED <<param, data, lookup>>
    /\ UNCHANGED cofVars

\* animdata.GetRecords(name)
CallGetRecords ==
    /\ pc = "loaded"
    /\ animdata # Nil
    /\ \E name \in QueryNames :
         lookup' = [op |-> "GetRecords", name |-> name, result |-> GetRecords(animdata, name)]
    /\ pc' = "looked"
    /\ UNCHANGED <<param, data, animdata, err, pos>>
    /\ UNCHANGED cofVars

\* animdata.GetRecord(name)
CallGetRecord ==
    /\ pc = "loaded"
    /\ animdata # Nil
    /\ \E name \in QueryNames :
         lookup' = [op |-> "GetRecord", name |-> name, result |-> GetRecord(animdata, name)]
    /\ pc' = "looked"
    /\ UNCHANGED <<param, data, animdata, err, pos>>
    /\ UNCHANGED cofVars

NextAnim == CallLoad \/ CallGetRecords \/ CallGetRecord

SpecAnim == InitAnim /\ [][NextAnim]_vars

----------------------------------------------------------------------------
(* A caller holds a COF buffer or an AnimData buffer *)

Init == InitCOF \/ InitAnim

Next == CallNew \/ CallUnmarshal \/ CallMarshal \/ CallLoad \/ CallGetRecords \/ CallGetRecord

Spec == Init /\ [][Next]_vars

----------------------------------------------------------------------------
(* What the buffers explored hold, told from how they were put together *)

recordSize == byteCountName + 4 + 2 + byteCountSpeedPadding + numEvents

ExpectedRecords(q) ==
    LET names == q.recs1 \o q.recs2
    IN  [g \in 1..Len(names) |->
            [name |-> NameStrings[names[g]], frames |-> U32(FramesOf(g)),
             speed |-> SpeedOf(g), events |-> EventsOf(g)]]

\* a declared count above 67, read off its four bytes
DeclaresTooMany(count) == count[1] > 67 \/ count[2] > 0 \/ count[3] > 0 \/ count[4] > 0

\* the first block is as its count says and every name in it is terminated
FirstBlockFine(q) == q.count1 = LE32(Len(q.recs1)) /\ BadName \notin Range(q.recs1)

\* the whole buffer is as its counts say
WellFormed(q) ==
    /\ FirstBlockFine(q)
    /\ q.count2 = LE32(Len(q.recs2)) /\ BadName \notin Range(q.recs2)
    /\ q.drop = 0

\* the records of a store in the order of its blocks
DecodedRecords(ad) == Flatten([b \in 1..numBlocks |-> ad.blocks[b].records])

RECURSIVE SumOver(_, _)
SumOver(S, f) ==
    IF S = {} THEN 0 ELSE LET x == CHOOSE x \in S : TRUE IN f[x] + SumOver(S \ {x}, f)

Occurrences(s, x) == Cardinality({i \in DOMAIN s : s[i] = x})

Loaded    == pc \in {"loaded", "looked"}
Decoded   == pc \in {"unmarshalled", "marshalled"} /\ cofErr = NoErr

\* byte k (from 0) of layer descriptor i (from 0) of the buffer
LayerByte(buf, i, k) == buf[numHeaderBytes + numUnknownBodyBytes + numLayerBytes * i + k + 1]
LayerField(buf, i) ==
    SubSeq(buf, numHeaderBytes + numUnknownBodyBytes + numLayerBytes * i + 1,
                numHeaderBytes + numUnknownBodyBytes + numLayerBytes * (i + 1))

\* the length of a COF file with the counts of this header
CofFileLen(buf) == numHeaderBytes + numUnknownBodyBytes + numLayerBytes * buf[1]
                   + buf[2] + buf[3] * buf[2] * buf[1]

\* a layer descriptor that differs from what Marshal is to write in nothing but,
\* possibly, the length of its weapon code: flags 0 or 1, the code (of at most 3
\* ASCII characters, no blanks) first and zero bytes behind it
PlainLayer(b) ==
    LET field == SubSeq(b, layerWeaponClass + 1, numLayerBytes)
        code  == ReplaceAllBad(field)
    IN  /\ b[layerSelectable + 1] \in {0, 1}
        /\ b[layerTransparent + 1] \in {0, 1}
        /\ Len(code) <= maxCodeLength
        /\ \A i \in 1..Len(code) : code[i] < RuneSelf /\ ~IsSpace(code[i])
        /\ field = code \o Zeros(4 - Len(code))

----------------------------------------------------------------------------
(* The claims *)

\* C1: Marshal(Unmarshal(bytes)) = bytes for every buffer that decodes and whose
\* weapon-class codes have at most 3 characters, the empty code included.  Stated
\* for the buffers that hold nothing behind the priority matrix and whose layers
\* are plain, where the length of the weapon code is all that can matter.
C1_RoundTrip ==
    (/\ pc = "marshalled" /\ cofErr = NoErr
     /\ Len(fileData) = CofFileLen(fileData)
     /\ \A i \in 0..(fileData[1] - 1) : PlainLayer(LayerField(fileData, i)))
    => out = fileData

\* C2: Marshal writes every layer as 9 bytes: 5 bytes, then the weapon class as 3
\* characters and a zero byte.
C2_LayerIsNineBytes ==
    (pc = "marshalled" /\ cofErr = NoErr) =>
        /\ \A i \in 1..Len(cof.CofLayers) :
              LET b == marshalLayer(cof.CofLayers[i])
              IN  /\ Len(b) = numLayerBytes
                  /\ b[numLayerBytes] = terminator
                  /\ \A k \in (layerWeaponClass + 1)..(numLayerBytes - 1) : b[k] # terminator
        /\ Len(out) = numHeaderBytes + numUnknownBodyBytes
                      + numLayerBytes * Len(cof.CofLayers) + Len(cof.AnimationFrames)
                      + cof.NumberOfDirections * cof.FramesPerDirection * cof.NumberOfLayers

\* C3: a decode that fails hands the caller no object holding fields read from
\* the input: Load no store, Unmarshal no document but, at most, an untouched one.
C3_NoPartialResult ==
    /\ (Loaded /\ err # NoErr) => animdata = Nil
    /\ (pc \in {"unmarshalled", "marshalled"} /\ cofErr # NoErr) => (cof = Nil \/ cof = New)

\* C4: after a Load that succeeds, slot i of the hash table holds the hash of the
\* name of the i-th record decoded, for every record.
C4_HashJournalInOrder ==
    (Loaded /\ animdata # Nil) =>
        LET all == DecodedRecords(animdata)
        IN  \A i \in 1..Len(all) : HashAt(animdata.hashTable, i - 1) = hashName(all[i].name)

\* C5: GetRecords(name) is the records of that name in the order they stand in
\* the buffer, empty for a name not in it; GetRecord(name) is the last of them,
\* or nil when there is none.
C5_LastWriteWins ==
    pc = "looked" =>
        LET same == SelectSeq(ExpectedRecords(param), LAMBDA r : r.name = lookup.name)
        IN  /\ lookup.op = "GetRecords" => lookup.result = same
            /\ lookup.op = "GetRecord" =>
                  lookup.result = IF same = <<>> THEN Nil ELSE same[Len(same)]

C5_Witness ==
    /\ pc = "looked" /\ lookup.op = "GetRecord"
    /\ Len(GetRecords(animdata, lookup.name)) >= 2
    /\ lookup.name \in {NameStrings[i] : i \in Range(param.recs1)}
    /\ lookup.name \in {NameStrings[i] : i \in Range(param.recs2)}
    /\ lookup.result = ExpectedRecords(param)[Len(param.recs1 \o param.recs2)]

\* C6: Load succeeds only with the reader at the end of the buffer after the
\* 256th block; bytes left over, or bytes missing, make it return an error and
\* no store.
C6_FullConsumption ==
    Loaded =>
        /\ (err = NoErr) <=> (animdata # Nil)
        /\ err = NoErr =>
              /\ pos = Len(data)
              /\ Len(data) = 4 * numBlocks + recordSize * Len(DecodedRecords(animdata))
        /\ (WellFormed(param) /\ param.extra > 0) =>
              /\ err = ErrUnableParse /\ animdata = Nil
              /\ pos = Len(data) - param.extra
        /\ (FirstBlockFine(param) /\ param.count2 = LE32(0) /\ param.recs2 # <<>>) =>
              err = ErrUnableParse /\ animdata = Nil
        /\ param.drop > 0 => (err = ErrEOF /\ animdata = Nil)

C6_Witness ==
    /\ Loaded /\ WellFormed(param) /\ param.extra > 0 /\ param.recs2 # <<>>
    /\ err = ErrUnableParse /\ animdata = Nil

\* C7: a block count above 67 makes Load return an error and no store before it
\* reads a record of that block; every block of a store has at most 67 records.
C7_BlockLimit ==
    Loaded =>
        /\ DeclaresTooMany(param.count1) =>
              err = ErrTooMany /\ animdata = Nil /\ pos = 4
        /\ (FirstBlockFine(param) /\ DeclaresTooMany(param.count2)) =>
              /\ err = ErrTooMany /\ animdata = Nil
              /\ pos = 4 + recordSize * Len(param.recs1) + 4 * (numBlocks - 2) + 4
        /\ animdata # Nil =>
              \A b \in 1..numBlocks : animdata.blocks[b].recordCount <= maxRecordsPerBlock

C7_Witness ==
    /\ Loaded /\ FirstBlockFine(param) /\ param.recs1 # <<>>
    /\ param.count2 = LE32(68) /\ param.recs2 # <<>>
    /\ err = ErrTooMany /\ animdata = Nil /\ pos = Len(data) - recordSize

\* C8: after an Unmarshal that succeeds the priority matrix has NumberOfDirections
\* directions of FramesPerDirection frames of NumberOfLayers slots, every one of
\* them a made slice, also where a count is 0.
C8_PriorityDimensions ==
    Decoded =>
        /\ cof.NumberOfDirections = fileData[headerNumDirs + 1]
        /\ cof.FramesPerDirection = fileData[headerFramesPerDir + 1]
        /\ cof.NumberOfLayers = fileData[headerNumLayers + 1]
        /\ cof.Priority.made
        /\ Len(cof.Priority.elems) = cof.NumberOfDirections
        /\ \A d \in 1..Len(cof.Priority.elems) :
              LET dir == cof.Priority.elems[d]
              IN  /\ dir.made
                  /\ Len(dir.elems) = cof.FramesPerDirection
                  /\ \A f \in 1..Len(dir.elems) :
                        /\ dir.elems[f].made
                        /\ Len(dir.elems[f].elems) = cof.NumberOfLayers

C8_Witness ==
    /\ Decoded
    /\ cof.NumberOfDirections = 2 /\ cof.FramesPerDirection = 1 /\ cof.NumberOfLayers = 0
    /\ Len(cof.Priority.elems) = 2
    /\ cof.Priority.elems[2].made /\ Len(cof.Priority.elems[2].elems) = 1
    /\ cof.Priority.elems[2].elems[1].made

\* C9: a store has all 256 blocks, each with as many records as its count says,
\* and the counts add up to the lengths of the lists of the name index, every
\* record being in the lists once.
C9_RecordAccounting ==
    (Loaded /\ animdata # Nil) =>
        LET all == DecodedRecords(animdata)
            names == DOMAIN animdata.entries
        IN  /\ \A b \in 1..numBlocks :
                  /\ animdata.blocks[b] # Nil
                  /\ Len(animdata.blocks[b].records) = animdata.blocks[b].recordCount
                  /\ \A i \in 1..animdata.blocks[b].recordCount :
                        animdata.blocks[b].records[i] # Nil
            /\ animdata.blocks[1].recordCount = Len(param.recs1)
            /\ animdata.blocks[numBlocks].recordCount = Len(param.recs2)
            /\ SumTo([b \in 1..numBlocks |-> animdata.blocks[b].recordCount], numBlocks)
                  = SumOver(names, [n \in names |-> Len(animdata.entries[n])])
            /\ \A i \in 1..Len(all) :
                  SumOver(names, [n \in names |-> Occurrences(animdata.entries[n], all[i])]) = 1

C9_Witness ==
    /\ Loaded /\ animdata # Nil
    /\ Len(param.recs1) = 2 /\ Len(param.recs2) = 1
    /\ param.recs1[1] = param.recs2[1] /\ param.recs1[2] # param.recs1[1]
    /\ Cardinality(DOMAIN animdata.entries) = 2

\* C10: after an Unmarshal that succeeds CompositeLayers maps every type of a
\* layer to the last layer of that type and nothing else, every index is one of
\* CofLayers, and CofLayers holds the NumberOfLayers layers in the order of the
\* buffer.
C10_CompositeLayers ==
    Decoded =>
        LET n == fileData[headerNumLayers + 1]
            m == cof.CompositeLayers
        IN  /\ cof.NumberOfLayers = n
            /\ Len(cof.CofLayers) = n
            /\ \A i \in 0..(n - 1) :
                  /\ cof.CofLayers[i + 1].Type = LayerByte(fileData, i, layerType)
                  /\ cof.CofLayers[i + 1].Shadow = LayerByte(fileData, i, layerShadow)
            /\ DOMAIN m = {LayerByte(fileData, i, layerType) : i \in 0..(n - 1)}
            /\ \A t \in DOMAIN m :
                  /\ m[t] \in 0..(n - 1)
                  /\ LayerByte(fileData, m[t], layerType) = t
                  /\ \A i \in (m[t] + 1)..(n - 1) : LayerByte(fileData, i, layerType) # t

C10_Witness ==
    /\ Decoded
    /\ cof.NumberOfLayers = 2
    /\ cof.CofLayers[1].Type = cof.CofLayers[2].Type
    /\ cof.CofLayers[1] # cof.CofLayers[2]
    /\ cof.CompositeLayers[cof.CofLayers[1].Type] = 1

====
